---------------------------- MODULE Spec2Model ----------------------------
(***************************************************************************)
(* Model of the polkit authentication agent (src/main.rs): the             *)
(* PolkitAgent D-Bus interface (begin_authentication,                      *)
(* cancel_authentication), the helper conversation driver (authenticate,   *)
(* handle_helper_line, handle_password), the prompt event channel and the  *)
(* presentation loop with its password prompt.                             *)
(*                                                                         *)
(* Every begin_authentication call is a task of the multi-threaded tokio   *)
(* runtime; its position is pc[c].  A step of the model runs one task from *)
(* one suspension point (.await) to the next.                              *)
(***************************************************************************)
EXTENDS Integers, Sequences, FiniteSets, TLC

(* ------------------------------ bounds -------------------------------- *)
\* number of begin_authentication calls the authority delivers
NumCalls == 2
\* helper output lines read by one conversation loop
MaxLines == 2
\* credential values one attempt's reply channel accepts from the prompt
MaxPw == 2
\* events the prompt event channel holds before the presentation loop takes one
MaxEvents == 3
\* identities in one list handed to select_username_from_identities
MaxIdentities == 3

Calls == 1..NumCalls
Cookies == {"ck1", "ck2"}
Passwords == {"secret"}
\* Option<T>: the empty sequence is None, <<x>> is Some(x)
None == <<>>
Some(x) == <<x>>
\* a result not yet produced
Pending == "Pending"
NL == "\n"

(* --------------------- username selection (428-448) -------------------- *)
\* uzers::get_current_uid()
CurrentUid == 1000
\* uids the account directory resolves to a name (uzers::get_user_by_uid)
KnownUids == {0, 1000}

\* an identity: its kind and the U32 under "uid" of its details, if any
UnixUser(u) == [identity_kind |-> "unix-user", uid |-> Some(u)]
UnixGroup(g) == [identity_kind |-> "unix-group", uid |-> Some(g)]
\* a unix-user identity whose details hold no U32 under "uid"
UnixUserNoUid == [identity_kind |-> "unix-user", uid |-> None]

\* identity lists the authority passes to begin_authentication
IdentityLists ==
  { <<>>,
    <<UnixUser(1000), UnixUser(0)>>,
    <<UnixGroup(1000)>>,
    <<UnixUser(500)>> }

\* the identities a list may hold, and every list of up to MaxIdentities of them
Identities == {UnixUser(0), UnixUser(500), UnixUser(1000), UnixGroup(0), UnixUserNoUid}
AllIdentityLists == UNION { [1..n -> Identities] : n \in 0..MaxIdentities }

RECURSIVE CollectUids(_)
CollectUids(ids) ==
  IF ids = <<>> THEN <<>>
  ELSE LET ident == Head(ids)
           rest == CollectUids(Tail(ids))
       IN IF ident.identity_kind = "unix-user" /\ ident.uid # None
          THEN <<ident.uid[1]>> \o rest
          ELSE rest

Contains(s, x) == \E i \in 1..Len(s) : s[i] = x

\* the selection of 440-444 with root tried before the own uid
SelectUid_RootFirst(ids) ==
  LET uids == CollectUids(ids)
  IN IF Contains(uids, 0) THEN Some(0)
     ELSE IF Contains(uids, CurrentUid) THEN Some(CurrentUid)
     ELSE IF uids # <<>> THEN Some(Head(uids))
     ELSE None

\* own uid, then root, then the first uid of the list
SelectUid(ids) ==
  LET uids == CollectUids(ids)
  IN IF Contains(uids, CurrentUid) THEN Some(CurrentUid)
     ELSE IF Contains(uids, 0) THEN Some(0)
     ELSE IF uids # <<>> THEN Some(Head(uids))
     ELSE None

select_username_from_identities(ids) ==
  LET uid == SelectUid(ids)
  IN IF uid = None THEN None
     ELSE IF uid[1] \in KnownUids THEN Some(<<"user", uid[1]>>)
     ELSE None

(* ------------------- helper line protocol (241-271) ------------------- *)
\* A line is a sequence of symbols: a word, or "SP" for one space.
SP == "SP"
HelperLines ==
  { <<"PAM_PROMPT_ECHO_OFF", SP, "Password:">>,
    <<"PAM_PROMPT_ECHO_ON", SP, "x">>,
    <<"PAM_TEXT_INFO", SP, "x">>,
    <<"PAM_ERROR_MSG", SP, "x">>,
    <<"x">>,
    <<"SUCCESS">>,
    <<SP, "FAILURE", SP>> }

RECURSIVE TrimStart(_)
TrimStart(line) ==
  IF line # <<>> /\ Head(line) = SP THEN TrimStart(Tail(line)) ELSE line

RECURSIVE TrimEnd(_)
TrimEnd(line) ==
  IF line # <<>> /\ line[Len(line)] = SP
  THEN TrimEnd(SubSeq(line, 1, Len(line) - 1)) ELSE line

\* str::trim
Trim(line) == TrimEnd(TrimStart(line))

\* line.split_once(' ').unwrap_or((line, "")), first component
Prefix(line) ==
  IF \E i \in 1..Len(line) : line[i] = SP
  THEN LET i == CHOOSE j \in 1..Len(line) :
                  line[j] = SP /\ \A k \in 1..(j - 1) : line[k] # SP
       IN SubSeq(line, 1, i - 1)
  ELSE line

\* the match of handle_helper_line with an unknown prefix treated as a failure
LineEffect_UnknownFails(line) ==
  LET prefix == Prefix(Trim(line))
  IN IF prefix = <<"PAM_PROMPT_ECHO_OFF">> THEN "prompt"
     ELSE IF prefix = <<"PAM_PROMPT_ECHO_ON">> THEN "fail"
     ELSE IF prefix = <<"PAM_ERROR_MSG">> THEN "continue"
     ELSE IF prefix = <<"PAM_TEXT_INFO">> THEN "continue"
     ELSE IF prefix = <<"SUCCESS">> THEN "break"
     ELSE IF prefix = <<"FAILURE">> THEN "fail"
     ELSE "fail"

\* the match of handle_helper_line with FAILURE ending the loop like SUCCESS
LineEffect_FailureBreaks(line) ==
  LET prefix == Prefix(Trim(line))
  IN IF prefix = <<"PAM_PROMPT_ECHO_OFF">> THEN "prompt"
     ELSE IF prefix = <<"PAM_PROMPT_ECHO_ON">> THEN "fail"
     ELSE IF prefix = <<"PAM_ERROR_MSG">> THEN "continue"
     ELSE IF prefix = <<"PAM_TEXT_INFO">> THEN "continue"
     ELSE IF prefix = <<"SUCCESS">> THEN "break"
     ELSE IF prefix = <<"FAILURE">> THEN "break"
     ELSE "continue"

\* the match of handle_helper_line: what the loop does with a line
\*   "prompt"   send ReadPassword, Ok(true)
\*   "continue" Ok(true)
\*   "break"    Ok(false)
\*   "fail"     Err(Failed)
LineEffect(line) ==
  LET prefix == Prefix(Trim(line))
  IN IF prefix = <<"PAM_PROMPT_ECHO_OFF">> THEN "prompt"
     ELSE IF prefix = <<"PAM_PROMPT_ECHO_ON">> THEN "fail"
     ELSE IF prefix = <<"PAM_ERROR_MSG">> THEN "continue"
     ELSE IF prefix = <<"PAM_TEXT_INFO">> THEN "continue"
     ELSE IF prefix = <<"SUCCESS">> THEN "break"
     ELSE IF prefix = <<"FAILURE">> THEN "fail"
     ELSE "continue"

Token(line) == Prefix(Trim(line))

(* ------------------------------- state -------------------------------- *)
VARIABLES
  attempt,     \* PolkitAgent.attempt: None or Some([cookie, token])
  cancelled,   \* cancelled[c]: the CancellationToken created by call c is cancelled
  pc,          \* position of begin_authentication call c
  cookie,      \* cookie argument of call c
  result,      \* result of authenticate / begin_authentication of call c
  proc,        \* helper process of call c: "none", "running", "exited", "reaped"
  helperIn,    \* what call c wrote to its helper's stdin
  pwChan,      \* password_tx/password_rx channel of call c
  events,      \* ev_tx/ev_rx: the prompt event channel (FIFO)
  dialog,      \* presentation loop: None or Some(window with its current prompt)
  obs,         \* per call: what its conversation has gone through so far
  wlock,       \* PolkitAgent.attempt's RwLock: None or Some(call holding the write guard)
  windows,     \* presentation: the ApplicationWindows created and not destroyed
  identities,  \* select_username_from_identities: the list it is applied to
  selected,    \* ... and None or Some([uid, name]) once it has run
  rt,          \* main: position of the I/O thread (288-312)
  ui,          \* main: position of the main thread, which runs the GTK application
  app_token,   \* main: app_token is cancelled
  watcher,     \* the future of 319-322: "none", "pending", "done"
  evloop,      \* the future of 324-346: "none", "receiving", "ended"
  senders,     \* ev_tx or a clone of it is alive
  shutdown,    \* rt_shutdown_tx has sent
  failedAt     \* None or Some(the startup step that failed)

\* the state of a lone run of select_username_from_identities
selVars == <<identities, selected>>
\* the state of the agent's calls and of the presentation loop
agentVars == <<attempt, cancelled, pc, cookie, result, proc, helperIn, pwChan,
               events, dialog, obs, wlock, windows>>
\* the state of the two threads of main
mainVars == <<rt, ui, app_token, watcher, evloop, senders, shutdown, failedAt>>
\* what no step of the agent's calls and of the presentation loop touches
others == <<selVars, mainVars>>

vars == <<attempt, cancelled, pc, cookie, result, proc, helperIn, pwChan,
          events, dialog, obs, wlock, windows, others>>

\* lines, prompts: helper lines and PAM_PROMPT_ECHO_OFF lines processed;
\* success, fatal: a SUCCESS, a FAILURE or PAM_PROMPT_ECHO_ON line processed;
\* eof: end of the helper's output seen; ioErr: an I/O operation failed;
\* cancelHit: cancel_authentication signalled the token while authenticate
\* was in flight; cancelMiss: cancel_authentication came with another cookie
\* while authenticate was in flight; noUser: begin_authentication found no
\* user for the identities
NoObs == [lines |-> 0, prompts |-> 0, success |-> FALSE, fatal |-> FALSE,
          eof |-> FALSE, ioErr |-> FALSE, cancelHit |-> FALSE,
          cancelMiss |-> FALSE, noUser |-> FALSE]

\* the agent registered, the presentation loop running, no call delivered yet
InitAgent ==
  /\ attempt = None
  /\ cancelled = [c \in Calls |-> FALSE]
  /\ pc = [c \in Calls |-> "idle"]
  /\ cookie = [c \in Calls |-> ""]
  /\ result = [c \in Calls |-> Pending]
  /\ proc = [c \in Calls |-> "none"]
  /\ helperIn = [c \in Calls |-> <<>>]
  /\ pwChan = [c \in Calls |-> <<>>]
  /\ events = <<>>
  /\ dialog = None
  /\ obs = [c \in Calls |-> NoObs]
  /\ wlock = None
  /\ windows = 0

\* startup is over: the agent is registered (423) and the application
\* activated (315-347)
InitMain ==
  /\ rt = "registered"
  /\ ui = "active"
  /\ app_token = FALSE
  /\ watcher = "pending"
  /\ evloop = "receiving"
  /\ senders = TRUE
  /\ shutdown = FALSE
  /\ failedAt = None

Init ==
  /\ InitAgent
  /\ InitMain
  /\ identities = <<>>
  /\ selected = None

\* authenticate of call c is running (helper spawned, not yet returned)
InFlight(c) == pc[c] \in {"write_cookie", "loop", "wait"}
\* authenticate of call c has returned to begin_authentication (129); what the
\* conversation did (proc, helperIn, obs) is on record until the call moves on
Returned(c) == pc[c] = "send_end"
\* call c is past the install of its attempt and not yet at its clear
Attempting(c) == pc[c] \in {"spawn", "write_cookie", "loop", "wait", "send_end", "clear"}
\* password_rx of call c exists (created at 189, dropped when authenticate returns)
ReceiverAlive(c) == pc[c] \in {"loop", "wait"}
\* an event in the channel or the prompt on screen holds the token and the
\* reply sender of call c
Referenced(c) ==
  \/ \E i \in 1..Len(events) : events[i].call = c
  \/ dialog # None /\ dialog[1].prompt = c

\* the CancellationToken of call c is still held: by the call itself, by the
\* attempt in slot a, by an event in channel e or by the prompt of dialog d
Held(c, p, a, e, d) ==
  \/ p[c] # "idle"
  \/ a # None /\ a[1].token = c
  \/ \E i \in 1..Len(e) : e[i].call = c
  \/ d # None /\ d[1].prompt = c

\* the token flags once the tokens nobody holds are dropped
Dropped(flags, p, a, e, d) ==
  [c \in Calls |-> flags[c] /\ Held(c, p, a, e, d)]

\* the credential values call c wrote to its helper after the handshake
Credentials(c) ==
  SelectSeq(SubSeq(helperIn[c], 3, Len(helperIn[c])), LAMBDA x : x # NL)

\* c can name the next call: no call, event or prompt goes by it and the slot
\* holds no token of that name (121: every call makes a token of its own). A
\* new call takes the least such name.
Free(c) ==
  /\ pc[c] = "idle"
  /\ ~Referenced(c)
  /\ ~(attempt # None /\ attempt[1].token = c)

(* ------------------ begin_authentication (98-140) --------------------- *)
\* begin_authentication without the existing-attempt check of 109-114
BeginCheck_NoExistingCheck(c, k, ids) ==
  /\ Free(c)
  /\ wlock = None
  /\ \A d \in Calls : d < c => ~Free(d)
  /\ cookie' = [cookie EXCEPT ![c] = k]
  /\ IF select_username_from_identities(ids) = None
     THEN /\ pc' = [pc EXCEPT ![c] = "done"]
          /\ result' = [result EXCEPT ![c] = "Failed"]
          /\ obs' = [obs EXCEPT ![c].noUser = TRUE]
     ELSE /\ pc' = [pc EXCEPT ![c] = "install"]
          /\ UNCHANGED <<result, obs>>
  /\ UNCHANGED <<attempt, cancelled, proc, helperIn, pwChan, events, dialog>>
  /\ UNCHANGED <<wlock, windows, others>>

\* begin_authentication without the return of 116-119
BeginCheck_NoUserCheck(c, k, ids) ==
  /\ Free(c)
  /\ wlock = None
  /\ \A d \in Calls : d < c => ~Free(d)
  /\ cookie' = [cookie EXCEPT ![c] = k]
  /\ IF attempt # None
     THEN /\ pc' = [pc EXCEPT ![c] = "done"]
          /\ result' = [result EXCEPT ![c] = "Failed"]
     ELSE /\ pc' = [pc EXCEPT ![c] = "install"]
          /\ UNCHANGED result
  /\ UNCHANGED <<attempt, cancelled, proc, helperIn, pwChan, events, dialog, obs>>
  /\ UNCHANGED <<wlock, windows, others>>

\* 109-119: the existing-attempt check and the username selection
BeginCheck(c, k, ids) ==
  /\ Free(c)
  /\ wlock = None
  /\ \A d \in Calls : d < c => ~Free(d)
  /\ cookie' = [cookie EXCEPT ![c] = k]
  /\ IF attempt # None
     THEN /\ pc' = [pc EXCEPT ![c] = "done"]
          /\ result' = [result EXCEPT ![c] = "Failed"]
          /\ UNCHANGED obs
     ELSE IF select_username_from_identities(ids) = None
     THEN /\ pc' = [pc EXCEPT ![c] = "done"]
          /\ result' = [result EXCEPT ![c] = "Failed"]
          /\ obs' = [obs EXCEPT ![c].noUser = TRUE]
     ELSE /\ pc' = [pc EXCEPT ![c] = "install"]
          /\ UNCHANGED <<result, obs>>
  /\ UNCHANGED <<attempt, cancelled, proc, helperIn, pwChan, events, dialog>>
  /\ UNCHANGED <<wlock, windows, others>>

\* 123 and 133: self.attempt.write().await returns the write guard
BeginLock(c) ==
  /\ pc[c] \in {"install", "clear"}
  /\ wlock = None
  /\ wlock' = Some(c)
  /\ UNCHANGED <<attempt, cancelled, pc, cookie, result, proc, helperIn, pwChan,
                 events, dialog, obs>>
  /\ UNCHANGED <<windows, others>>

\* the install with the write guard kept until the call returns
BeginInstall_KeepsGuard(c) ==
  /\ pc[c] = "install"
  /\ wlock = Some(c)
  /\ wlock' = wlock
  /\ attempt' = Some([cookie |-> cookie[c], token |-> c])
  /\ pc' = [pc EXCEPT ![c] = "spawn"]
  /\ cancelled' = Dropped([cancelled EXCEPT ![c] = FALSE], pc', attempt', events, dialog)
  /\ UNCHANGED <<cookie, result, proc, helperIn, pwChan, events, dialog, obs>>
  /\ UNCHANGED <<windows, others>>

\* 121-127: a fresh token, installed with the cookie; the write guard is
\* dropped at 127
BeginInstall(c) ==
  /\ pc[c] = "install"
  /\ wlock = Some(c)
  /\ wlock' = None
  /\ attempt' = Some([cookie |-> cookie[c], token |-> c])
  /\ pc' = [pc EXCEPT ![c] = "spawn"]
  /\ cancelled' = Dropped([cancelled EXCEPT ![c] = FALSE], pc', attempt', events, dialog)
  /\ UNCHANGED <<cookie, result, proc, helperIn, pwChan, events, dialog, obs>>
  /\ UNCHANGED <<windows, others>>

\* begin_authentication without the send of 130
BeginSendEnd_NoEnd(c) ==
  /\ pc[c] = "send_end"
  /\ pc' = [pc EXCEPT ![c] = "clear"]
  /\ proc' = [proc EXCEPT ![c] = "none"]
  /\ helperIn' = [helperIn EXCEPT ![c] = <<>>]
  /\ obs' = [obs EXCEPT ![c] = NoObs]
  /\ UNCHANGED <<attempt, cancelled, cookie, result, pwChan, events, dialog>>
  /\ UNCHANGED <<wlock, windows, others>>

\* 130: self.sender.send_async(Event::End)
BeginSendEnd(c) ==
  /\ pc[c] = "send_end"
  /\ Len(events) < MaxEvents
  /\ events' = Append(events, [type |-> "End", call |-> c])
  /\ pc' = [pc EXCEPT ![c] = "clear"]
  /\ proc' = [proc EXCEPT ![c] = "none"]
  /\ helperIn' = [helperIn EXCEPT ![c] = <<>>]
  /\ obs' = [obs EXCEPT ![c] = NoObs]
  /\ UNCHANGED <<attempt, cancelled, cookie, result, pwChan, dialog>>
  /\ UNCHANGED <<wlock, windows, others>>

\* 132-138: *attempt = None; the write guard is dropped at 135
BeginClear(c) ==
  /\ pc[c] = "clear"
  /\ wlock = Some(c)
  /\ wlock' = None
  /\ attempt' = None
  /\ pc' = [pc EXCEPT ![c] = "done"]
  /\ cancelled' = Dropped(cancelled, pc', attempt', events, dialog)
  /\ UNCHANGED <<cookie, result, proc, helperIn, pwChan, events,
                 dialog, obs>>
  /\ UNCHANGED <<windows, others>>

\* 139 (and 113, 118, 174): the call is over, its task and its locals are gone;
\* the slot c can carry the next call
BeginReturn(c) ==
  /\ pc[c] \in {"done", "panicked"}
  /\ pc' = [pc EXCEPT ![c] = "idle"]
  /\ cookie' = [cookie EXCEPT ![c] = ""]
  /\ result' = [result EXCEPT ![c] = Pending]
  /\ proc' = [proc EXCEPT ![c] = "none"]
  /\ helperIn' = [helperIn EXCEPT ![c] = <<>>]
  /\ pwChan' = [pwChan EXCEPT ![c] = <<>>]
  /\ obs' = [obs EXCEPT ![c] = NoObs]
  /\ cancelled' = Dropped(cancelled, pc', attempt, events, dialog)
  /\ UNCHANGED <<attempt, events, dialog>>
  /\ UNCHANGED <<wlock, windows, others>>

(* ------------------ cancel_authentication (142-158) ------------------- *)
\* the value cancel_authentication(k) returns: Ok(()) at 147, 152 and 157
cancel_result(k) ==
  IF attempt = None THEN "Ok"
  ELSE IF attempt[1].cookie # k THEN "Ok"
  ELSE "Ok"

\* cancel_authentication without the cookie comparison of 150-153
cancel_authentication_NoCookieCheck(k) ==
  /\ wlock = None
  /\ IF attempt = None
     THEN UNCHANGED <<cancelled, obs>>
     ELSE LET c == attempt[1].token
          IN /\ cancelled' = [cancelled EXCEPT ![c] = TRUE]
             /\ obs' = [obs EXCEPT ![c].cancelHit =
                          @ \/ (InFlight(c) /\ attempt[1].cookie = k),
                                   ![c].cancelMiss =
                          @ \/ (InFlight(c) /\ attempt[1].cookie # k)]
  /\ UNCHANGED <<attempt, pc, cookie, result, proc, helperIn, pwChan, events,
                 dialog>>
  /\ UNCHANGED <<wlock, windows, others>>

cancel_authentication(k) ==
  /\ wlock = None
  /\ IF attempt = None
     THEN UNCHANGED <<cancelled, obs>>
     ELSE LET c == attempt[1].token
          IN IF attempt[1].cookie # k
             THEN /\ obs' = [obs EXCEPT ![c].cancelMiss = @ \/ InFlight(c)]
                  /\ UNCHANGED cancelled
             ELSE /\ cancelled' = [cancelled EXCEPT ![c] = TRUE]
                  /\ obs' = [obs EXCEPT ![c].cancelHit = @ \/ InFlight(c)]
  /\ UNCHANGED <<attempt, pc, cookie, result, proc, helperIn, pwChan, events,
                 dialog>>
  /\ UNCHANGED <<wlock, windows, others>>

(* ----------------------- authenticate (162-212) ----------------------- *)
\* authenticate returns r to begin_authentication (129)
Return(c, r) ==
  /\ pc' = [pc EXCEPT ![c] = "send_end"]
  /\ result' = [result EXCEPT ![c] = r]
  /\ pwChan' = [pwChan EXCEPT ![c] = <<>>]

\* 168-177: spawn the helper; a spawn error panics at unwrap() and the task
\* of the call ends there
Spawn(c, ok) ==
  /\ pc[c] = "spawn"
  /\ IF ok
     THEN /\ proc' = [proc EXCEPT ![c] = "running"]
          /\ pc' = [pc EXCEPT ![c] = "write_cookie"]
     ELSE /\ pc' = [pc EXCEPT ![c] = "panicked"]
          /\ UNCHANGED proc
  /\ UNCHANGED <<attempt, cancelled, cookie, result, helperIn, pwChan, events,
                 dialog, obs>>
  /\ UNCHANGED <<wlock, windows, others>>

\* 179-189: the handshake. outcome "ok": both writes succeed; "fail1": the
\* cookie write fails; "fail2": the newline write fails
WriteCookie(c, outcome) ==
  /\ pc[c] = "write_cookie"
  /\ CASE outcome = "ok" ->
            /\ helperIn' = [helperIn EXCEPT ![c] = @ \o <<cookie[c], NL>>]
            /\ pc' = [pc EXCEPT ![c] = "loop"]
            /\ UNCHANGED <<result, pwChan, obs>>
       [] outcome = "fail1" ->
            /\ Return(c, "Failed")
            /\ obs' = [obs EXCEPT ![c].ioErr = TRUE]
            /\ UNCHANGED helperIn
       [] outcome = "fail2" ->
            /\ helperIn' = [helperIn EXCEPT ![c] = @ \o <<cookie[c]>>]
            /\ Return(c, "Failed")
            /\ obs' = [obs EXCEPT ![c].ioErr = TRUE]
  /\ UNCHANGED <<attempt, cancelled, cookie, proc, events, dialog>>
  /\ UNCHANGED <<wlock, windows, others>>

\* 195 and 224-272: reader.next_line() is ready with a line of the helper
handle_helper_line(c, line) ==
  /\ pc[c] = "loop"
  /\ obs[c].lines < MaxLines
  /\ LET effect == LineEffect(line)
     IN /\ effect = "prompt" => Len(events) < MaxEvents
        /\ obs' = [obs EXCEPT ![c].lines = @ + 1,
                              ![c].prompts = IF effect = "prompt" THEN @ + 1 ELSE @,
                              ![c].success = @ \/ Token(line) = <<"SUCCESS">>,
                              ![c].fatal = @ \/ Token(line) \in
                                  {<<"FAILURE">>, <<"PAM_PROMPT_ECHO_ON">>}]
        /\ events' = IF effect = "prompt"
                     THEN Append(events, [type |-> "ReadPassword", call |-> c])
                     ELSE events
        /\ CASE effect \in {"prompt", "continue"} -> UNCHANGED <<pc, result, pwChan>>
             [] effect = "break" ->
                  /\ pc' = [pc EXCEPT ![c] = "wait"]
                  /\ UNCHANGED <<result, pwChan>>
             [] effect = "fail" -> Return(c, "Failed")
  /\ UNCHANGED <<attempt, cancelled, cookie, proc, helperIn, dialog>>
  /\ UNCHANGED <<wlock, windows, others>>

\* 235-237: next_line() yields None, the helper closed its output
HelperEof(c) ==
  /\ pc[c] = "loop"
  /\ pc' = [pc EXCEPT ![c] = "wait"]
  /\ obs' = [obs EXCEPT ![c].eof = TRUE]
  /\ UNCHANGED <<attempt, cancelled, cookie, result, proc, helperIn,
                 pwChan, events, dialog>>
  /\ UNCHANGED <<wlock, windows, others>>

\* 230-233: next_line() yields an I/O error
HelperReadError(c) ==
  /\ pc[c] = "loop"
  /\ Return(c, "Failed")
  /\ obs' = [obs EXCEPT ![c].ioErr = TRUE]
  /\ UNCHANGED <<attempt, cancelled, cookie, proc, helperIn, events,
                 dialog>>
  /\ UNCHANGED <<wlock, windows, others>>

\* handle_password without the newline write of 220
handle_password_NoNewline(c, outcome) ==
  /\ pc[c] = "loop"
  /\ pwChan[c] # <<>>
  /\ CASE outcome \in {"ok", "fail2"} ->
            /\ helperIn' = [helperIn EXCEPT ![c] = @ \o <<Head(pwChan[c])>>]
            /\ pwChan' = [pwChan EXCEPT ![c] = Tail(@)]
            /\ UNCHANGED <<pc, result, obs>>
       [] outcome = "fail1" ->
            /\ Return(c, "Failed")
            /\ obs' = [obs EXCEPT ![c].ioErr = TRUE]
            /\ UNCHANGED helperIn
  /\ UNCHANGED <<attempt, cancelled, cookie, proc, events, dialog>>
  /\ UNCHANGED <<wlock, windows, others>>

\* 196 and 214-222: a credential arrived on password_rx. outcome "ok": both
\* writes succeed; "fail1": the write of the value fails; "fail2": the write
\* of the newline fails
handle_password(c, outcome) ==
  /\ pc[c] = "loop"
  /\ pwChan[c] # <<>>
  /\ CASE outcome = "ok" ->
            /\ helperIn' = [helperIn EXCEPT ![c] = @ \o <<Head(pwChan[c]), NL>>]
            /\ pwChan' = [pwChan EXCEPT ![c] = Tail(@)]
            /\ UNCHANGED <<pc, result, obs>>
       [] outcome = "fail1" ->
            /\ Return(c, "Failed")
            /\ obs' = [obs EXCEPT ![c].ioErr = TRUE]
            /\ UNCHANGED helperIn
       [] outcome = "fail2" ->
            /\ helperIn' = [helperIn EXCEPT ![c] = @ \o <<Head(pwChan[c])>>]
            /\ Return(c, "Failed")
            /\ obs' = [obs EXCEPT ![c].ioErr = TRUE]
  /\ UNCHANGED <<attempt, cancelled, cookie, proc, events, dialog>>
  /\ UNCHANGED <<wlock, windows, others>>

\* 197: token.cancelled() is ready
LoopCancelled(c) ==
  /\ pc[c] = "loop"
  /\ cancelled[c]
  /\ Return(c, "Cancelled")
  /\ UNCHANGED <<attempt, cancelled, cookie, proc, helperIn, events,
                 dialog, obs>>
  /\ UNCHANGED <<wlock, windows, others>>

\* 205-211: process.wait() completes within the second
WaitExited(c) ==
  /\ pc[c] = "wait"
  /\ proc[c] = "exited"
  /\ proc' = [proc EXCEPT ![c] = "reaped"]
  /\ Return(c, "Ok")
  /\ UNCHANGED <<attempt, cancelled, cookie, helperIn, events, dialog,
                 obs>>
  /\ UNCHANGED <<wlock, windows, others>>

\* 205-211: the second elapses, process.kill() (kill and wait) follows
WaitTimeout(c, killOk) ==
  /\ pc[c] = "wait"
  /\ proc[c] = "running"
  /\ IF killOk
     THEN /\ proc' = [proc EXCEPT ![c] = "reaped"]
          /\ Return(c, "Ok")
          /\ UNCHANGED obs
     ELSE /\ Return(c, "Failed")
          /\ obs' = [obs EXCEPT ![c].ioErr = TRUE]
          /\ UNCHANGED proc
  /\ UNCHANGED <<attempt, cancelled, cookie, helperIn, events, dialog>>
  /\ UNCHANGED <<wlock, windows, others>>

\* the helper process exits on its own
HelperExit(c) ==
  /\ proc[c] = "running"
  /\ proc' = [proc EXCEPT ![c] = "exited"]
  /\ UNCHANGED <<attempt, cancelled, pc, cookie, result, helperIn, pwChan,
                 events, dialog, obs>>
  /\ UNCHANGED <<wlock, windows, others>>

(* -------------------- presentation loop (324-346) --------------------- *)
\* the loop with create_window called for every ReadPassword event
PresentEvent_WindowPerPrompt ==
  /\ events # <<>>
  /\ LET ev == Head(events)
     IN CASE ev.type = "ReadPassword" ->
               /\ dialog' = Some([prompt |-> ev.call, sent |-> 0, cancel |-> FALSE])
               /\ windows' = windows + 1
          [] ev.type = "ReadFingerprint" ->
               /\ dialog' = IF dialog = None
                             THEN Some([prompt |-> 0, sent |-> 0, cancel |-> FALSE])
                             ELSE dialog
               /\ windows' = IF dialog = None THEN windows + 1 ELSE windows
          [] ev.type = "End" ->
               /\ dialog' = None
               /\ windows' = IF dialog # None THEN windows - 1 ELSE windows
  /\ events' = Tail(events)
  /\ cancelled' = Dropped(cancelled, pc, attempt, events', dialog')
  /\ UNCHANGED <<attempt, pc, cookie, result, proc, helperIn,
                 pwChan, obs>>
  /\ UNCHANGED <<wlock, others>>

\* one iteration of `while let Ok(ev) = ev_rx.recv_async().await`
PresentEvent ==
  /\ events # <<>>
  /\ LET ev == Head(events)
     IN CASE ev.type = "ReadPassword" ->
               \* 330-332: the window is created if there is none
               /\ dialog' = Some([prompt |-> ev.call, sent |-> 0, cancel |-> FALSE])
               /\ windows' = IF dialog = None THEN windows + 1 ELSE windows
          [] ev.type = "ReadFingerprint" ->
               \* 335-337: show_fingerprint_prompt leaves the window as it is
               /\ dialog' = IF dialog = None
                             THEN Some([prompt |-> 0, sent |-> 0, cancel |-> FALSE])
                             ELSE dialog
               /\ windows' = IF dialog = None THEN windows + 1 ELSE windows
          [] ev.type = "End" ->
               \* 340-342: dialog.take() and destroy
               /\ dialog' = None
               /\ windows' = IF dialog # None THEN windows - 1 ELSE windows
  /\ events' = Tail(events)
  /\ cancelled' = Dropped(cancelled, pc, attempt, events', dialog')
  /\ UNCHANGED <<attempt, pc, cookie, result, proc, helperIn,
                 pwChan, obs>>
  /\ UNCHANGED <<wlock, others>>

(* ------------------- show_password_prompt (366-396) ------------------- *)
\* 380-384: the user activates the password entry holding text v
Activate(v) ==
  /\ dialog # None
  /\ dialog[1].prompt \in Calls
  /\ IF ReceiverAlive(dialog[1].prompt)
     THEN /\ Len(pwChan[dialog[1].prompt]) + Len(Credentials(dialog[1].prompt)) < MaxPw
          /\ pwChan' = [pwChan EXCEPT ![dialog[1].prompt] = Append(@, v)]
          /\ dialog' = [dialog EXCEPT ![1].sent = @ + 1]
     ELSE UNCHANGED <<pwChan, dialog>>
  /\ UNCHANGED <<attempt, cancelled, pc, cookie, result, proc, helperIn,
                 events, obs>>
  /\ UNCHANGED <<wlock, windows, others>>

\* a cancel button that cancels the token of the attempt in the slot
CancelClicked_CancelsAttempt ==
  /\ dialog # None
  /\ dialog[1].prompt \in Calls
  /\ cancelled' = IF attempt = None THEN cancelled
                  ELSE [cancelled EXCEPT ![attempt[1].token] = TRUE]
  /\ dialog' = [dialog EXCEPT ![1].cancel = TRUE]
  /\ UNCHANGED <<attempt, pc, cookie, result, proc, helperIn, pwChan, events,
                 obs>>
  /\ UNCHANGED <<wlock, windows, others>>

\* 372-374: the user clicks the cancel button
CancelClicked ==
  /\ dialog # None
  /\ dialog[1].prompt \in Calls
  /\ cancelled' = [cancelled EXCEPT ![dialog[1].prompt] = TRUE]
  /\ dialog' = [dialog EXCEPT ![1].cancel = TRUE]
  /\ UNCHANGED <<attempt, pc, cookie, result, proc, helperIn, pwChan, events,
                 obs>>
  /\ UNCHANGED <<wlock, windows, others>>

(* --------------------------- specifications --------------------------- *)
Outcomes == {"ok", "fail1", "fail2"}

\* lines that end a conversation
FinalLines == { line \in HelperLines : LineEffect(line) \in {"break", "fail"} }

\* every other call is over: the authority delivers one call at a time
Alone(c) == \A d \in Calls \ {c} : pc[d] = "idle"

\* what begin_authentication, authenticate and the helper do once a call is in
Conversation(Lines) ==
  \/ \E c \in Calls : BeginLock(c)
  \/ \E c \in Calls : BeginInstall(c)
  \/ \E c \in Calls, ok \in BOOLEAN : Spawn(c, ok)
  \/ \E c \in Calls, o \in Outcomes : WriteCookie(c, o)
  \/ \E c \in Calls, line \in Lines : handle_helper_line(c, line)
  \/ \E c \in Calls : HelperEof(c)
  \/ \E c \in Calls : HelperReadError(c)
  \/ \E c \in Calls : LoopCancelled(c)
  \/ \E c \in Calls : WaitExited(c)
  \/ \E c \in Calls, ok \in BOOLEAN : WaitTimeout(c, ok)
  \/ \E c \in Calls : HelperExit(c)
  \/ \E c \in Calls : BeginSendEnd(c)
  \/ \E c \in Calls : BeginClear(c)
  \/ \E c \in Calls : BeginReturn(c)
  \/ \E k \in Cookies : cancel_authentication(k)
  \/ PresentEvent

\* The authority delivers begin calls concurrently; the helpers answer
\* without prompting.
Next ==
  \/ \E c \in Calls, k \in Cookies, ids \in IdentityLists : BeginCheck(c, k, ids)
  \/ Conversation(FinalLines)

Spec == Init /\ [][Next]_vars

\* The authority delivers one begin call at a time; the helper may send any
\* line and the user acts on the prompt.
NextSerial ==
  \/ \E c \in Calls, k \in Cookies, ids \in IdentityLists :
        Alone(c) /\ BeginCheck(c, k, ids)
  \/ Conversation(HelperLines)
  \/ \E c \in Calls, o \in Outcomes : handle_password(c, o)
  \/ \E v \in Passwords : Activate(v)
  \/ CancelClicked

SpecSerial == Init /\ [][NextSerial]_vars

\* select_username_from_identities on its own, applied to one list after another
InitSelect ==
  /\ InitAgent
  /\ InitMain
  /\ identities \in AllIdentityLists
  /\ selected = None

\* 428-448: the uid chosen at 440-444 and the name returned at 447
SelectUsername ==
  /\ selected = None
  /\ selected' = Some([uid |-> SelectUid(identities),
                       name |-> select_username_from_identities(identities)])
  /\ UNCHANGED <<identities, agentVars, mainVars>>

\* the next list
NextIdentities(ids) ==
  /\ selected # None
  /\ identities' = ids
  /\ selected' = None
  /\ UNCHANGED <<agentVars, mainVars>>

NextSelect ==
  \/ SelectUsername
  \/ \E ids \in AllIdentityLists : NextIdentities(ids)

SpecSelect == InitSelect /\ [][NextSelect]_vars

(* ------------------------- startup (275-354, 400-425) ----------------- *)
\* the fallible steps of the I/O thread, in order: zbus::Connection::system
\* (295), and in register_agent object_server().at (406),
\* LogindSessionProxy::new (408), session.id (409), PolkitAuthorityProxy::new
\* (418) and register_authentication_agent (419-421)
StartupSteps ==
  <<"connect", "serve", "session_proxy", "session_id", "authority_proxy", "register">>

StepAfter(step) ==
  LET i == CHOOSE j \in 1..Len(StartupSteps) : StartupSteps[j] = step
  IN IF i = Len(StartupSteps) THEN "registered" ELSE StartupSteps[i + 1]

InitStartup ==
  /\ InitAgent
  /\ identities = <<>>
  /\ selected = None
  /\ rt = "unstarted"
  /\ ui = "spawn"
  /\ app_token = FALSE
  /\ watcher = "none"
  /\ evloop = "none"
  /\ senders = TRUE
  /\ shutdown = FALSE
  /\ failedAt = None

\* 288: std::thread::spawn
SpawnRt ==
  /\ ui = "spawn"
  /\ ui' = "setup"
  /\ rt' = "build"
  /\ UNCHANGED <<app_token, watcher, evloop, senders, shutdown, failedAt>>
  /\ UNCHANGED <<agentVars, selVars>>

\* 289-292: the runtime is built; an error panics at expect() and unwinds
\* the thread, dropping ev_tx
RuntimeBuild(ok) ==
  /\ rt = "build"
  /\ IF ok
     THEN /\ rt' = "connect"
          /\ UNCHANGED senders
     ELSE /\ rt' = "panicked"
          /\ senders' = FALSE
  /\ UNCHANGED <<ui, app_token, watcher, evloop, shutdown, failedAt>>
  /\ UNCHANGED <<agentVars, selVars>>

\* a startup step that fails without cancelling app_token
StartupStep_NoCancel(ok) ==
  /\ \E i \in 1..Len(StartupSteps) : StartupSteps[i] = rt
  /\ IF ok
     THEN /\ rt' = StepAfter(rt)
          /\ UNCHANGED <<app_token, senders, failedAt>>
     ELSE /\ rt' = "returned"
          /\ senders' = FALSE
          /\ failedAt' = Some(rt)
          /\ UNCHANGED app_token
  /\ UNCHANGED <<ui, watcher, evloop, shutdown>>
  /\ UNCHANGED <<agentVars, selVars>>

\* 295-308 and 400-425: one startup step; on an error app_token_rt.cancel()
\* and return (297-301, 304-308), which drops ev_tx and the connection
StartupStep(ok) ==
  /\ \E i \in 1..Len(StartupSteps) : StartupSteps[i] = rt
  /\ IF ok
     THEN /\ rt' = StepAfter(rt)
          /\ UNCHANGED <<app_token, senders, failedAt>>
     ELSE /\ rt' = "returned"
          /\ app_token' = TRUE
          /\ senders' = FALSE
          /\ failedAt' = Some(rt)
  /\ UNCHANGED <<ui, watcher, evloop, shutdown>>
  /\ UNCHANGED <<agentVars, selVars>>

\* 310: rt_shutdown_rx receives, block_on and the thread return
RtShutdown ==
  /\ rt = "registered"
  /\ shutdown
  /\ rt' = "returned"
  /\ senders' = FALSE
  /\ UNCHANGED <<ui, app_token, watcher, evloop, shutdown, failedAt>>
  /\ UNCHANGED <<agentVars, selVars>>

\* 314-347: app.hold() and connect_activate
AppConnect ==
  /\ ui = "setup"
  /\ ui' = "connected"
  /\ UNCHANGED <<rt, app_token, watcher, evloop, senders, shutdown, failedAt>>
  /\ UNCHANGED <<agentVars, selVars>>

\* 349: app.run() is entered; it activates the application, or handles the
\* command line on its own (--help, an unknown option) and returns at once
AppRun(activates) ==
  /\ ui = "connected"
  /\ ui' = IF activates THEN "run" ELSE "shutdown"
  /\ UNCHANGED <<rt, app_token, watcher, evloop, senders, shutdown, failedAt>>
  /\ UNCHANGED <<agentVars, selVars>>

\* 315-347: the activate handler spawns the two futures on the main context
AppActivate ==
  /\ ui = "run"
  /\ ui' = "active"
  /\ watcher' = "pending"
  /\ evloop' = "receiving"
  /\ UNCHANGED <<rt, app_token, senders, shutdown, failedAt>>
  /\ UNCHANGED <<agentVars, selVars>>

\* 320-321: app_token.cancelled() is ready, app.quit()
WatcherQuits ==
  /\ ui = "active"
  /\ watcher = "pending"
  /\ app_token
  /\ watcher' = "done"
  /\ ui' = "quitting"
  /\ UNCHANGED <<rt, app_token, evloop, senders, shutdown, failedAt>>
  /\ UNCHANGED <<agentVars, selVars>>

\* 327: recv_async() yields Err once every sender is gone and the channel is
\* empty; the while let loop ends
EvLoopEnds ==
  /\ ui \in {"active", "quitting"}
  /\ evloop = "receiving"
  /\ ~senders
  /\ events = <<>>
  /\ evloop' = "ended"
  /\ UNCHANGED <<rt, ui, app_token, watcher, senders, shutdown, failedAt>>
  /\ UNCHANGED <<agentVars, selVars>>

\* 349: app.run() returns after quit()
RunReturns ==
  /\ ui = "quitting"
  /\ ui' = "shutdown"
  /\ UNCHANGED <<rt, app_token, watcher, evloop, senders, shutdown, failedAt>>
  /\ UNCHANGED <<agentVars, selVars>>

\* 350: let _ = rt_shutdown_tx.send(())
SendShutdown ==
  /\ ui = "shutdown"
  /\ ui' = "join"
  /\ shutdown' = TRUE
  /\ UNCHANGED <<rt, app_token, watcher, evloop, senders, failedAt>>
  /\ UNCHANGED <<agentVars, selVars>>

\* 351-353: rt_thread.join() returns, main returns; join() of a thread that
\* panicked is an Err and the expect of 351 panics
JoinRt ==
  /\ ui = "join"
  /\ rt \in {"returned", "panicked"}
  /\ ui' = IF rt = "returned" THEN "exited" ELSE "panicked"
  /\ UNCHANGED <<rt, app_token, watcher, evloop, senders, shutdown, failedAt>>
  /\ UNCHANGED <<agentVars, selVars>>

NextStartup ==
  \/ SpawnRt
  \/ \E ok \in BOOLEAN : RuntimeBuild(ok)
  \/ \E ok \in BOOLEAN : StartupStep(ok)
  \/ RtShutdown
  \/ AppConnect
  \/ \E activates \in BOOLEAN : AppRun(activates)
  \/ AppActivate
  \/ WatcherQuits
  \/ EvLoopEnds
  \/ RunReturns
  \/ SendShutdown
  \/ JoinRt

\* Both threads keep running: the operating system schedules them and the
\* main context polls its futures.
SpecStartup ==
  /\ InitStartup
  /\ [][NextStartup]_vars
  /\ WF_vars(SpawnRt) /\ WF_vars(AppConnect) /\ WF_vars(\E activates \in BOOLEAN : AppRun(activates))
  /\ WF_vars(AppActivate)
  /\ WF_vars(WatcherQuits) /\ WF_vars(EvLoopEnds) /\ WF_vars(RunReturns)
  /\ WF_vars(SendShutdown) /\ WF_vars(JoinRt)
  /\ WF_vars(\E ok \in BOOLEAN : RuntimeBuild(ok))
  /\ WF_vars(\E ok \in BOOLEAN : StartupStep(ok)) /\ WF_vars(RtShutdown)

(* ------------------------------- claims ------------------------------- *)
\* C1: at no time are two begin_authentication calls both past the install
\* of their attempt and not yet at their clear; at most one helper
\* conversation is in flight.
C1_AtMostOneAttempt ==
  /\ Cardinality({c \in Calls : Attempting(c)}) <= 1
  /\ Cardinality({c \in Calls : InFlight(c)}) <= 1

\* C2: a begin_authentication call that finds an attempt in the slot returns
\* Failed at once; the slot, the tokens, the helper processes and the event
\* channel are as they were.
C2_RejectedBeginLeavesAttempt ==
  [][\A c \in Calls :
       (pc[c] = "idle" /\ pc'[c] # "idle" /\ attempt # None)
         => /\ pc'[c] = "done"
            /\ result'[c] = "Failed"
            /\ UNCHANGED <<attempt, cancelled, proc, helperIn, events>>]_vars

\* a call was rejected while the attempt of another call is in the slot and
\* its conversation is in flight
C2_Witness ==
  \E c, d \in Calls :
    /\ c # d
    /\ pc[c] = "done" /\ result[c] = "Failed" /\ proc[c] = "none"
    /\ InFlight(d)
    /\ attempt = Some([cookie |-> cookie[d], token |-> d])

\* C3: once a begin_authentication call that installed an attempt is over,
\* whatever the outcome, the slot no longer holds its attempt.
C3_TerminatesCleared ==
  \A c \in Calls :
    pc[c] \in {"done", "panicked"} => ~(attempt # None /\ attempt[1].token = c)

\* C4: when authenticate has returned, on whatever path, the helper it
\* spawned has been reaped.
C4_HelperReaped ==
  \A c \in Calls : Returned(c) => proc[c] = "reaped"

\* C5: an authenticate call whose token cancel_authentication signalled while
\* the call was in flight returns Cancelled (at the least when none of its I/O
\* operations fails).
C5_CancelReturnsCancelled ==
  \A c \in Calls :
    (Returned(c) /\ obs[c].cancelHit /\ ~obs[c].ioErr) => result[c] = "Cancelled"

\* C6: cancel_authentication(k) with the slot empty or holding another cookie
\* returns Ok; the slot, the tokens, the event channel and the calls are as
\* they were.
C6_CancelNoOp ==
  [][\A k \in Cookies :
       (cancel_authentication(k) /\ (attempt = None \/ attempt[1].cookie # k))
         => /\ cancel_result(k) = "Ok"
            /\ UNCHANGED <<attempt, cancelled, events, dialog, pc, result>>]_vars

\* cancel_authentication came with another cookie while the conversation of
\* the attempt in the slot was in flight; the conversation goes on, its
\* token not cancelled
C6_Witness ==
  \E c \in Calls :
    /\ obs[c].cancelMiss
    /\ attempt # None /\ attempt[1].token = c
    /\ pc[c] = "loop"
    /\ ~cancelled[c]

\* C7: authenticate returns Ok only when its loop processed a SUCCESS line.
C7_OkOnlyOnSuccess ==
  \A c \in Calls : (Returned(c) /\ result[c] = "Ok") => obs[c].success

\* C8: once the loop has processed a FAILURE or PAM_PROMPT_ECHO_ON line,
\* whatever came before it, authenticate has returned Failed, and
\* begin_authentication returns what authenticate returned.
C8_FatalLineFails ==
  /\ [](\A c \in Calls : obs[c].fatal => (Returned(c) /\ result[c] = "Failed"))
  /\ [][\A c \in Calls :
          pc[c] \in {"send_end", "clear"} => result'[c] = result[c]]_vars

\* authenticate returned Failed after a masked prompt, a credential reply and
\* a fatal line
C8_Witness ==
  \E c \in Calls :
    /\ obs[c].fatal /\ Returned(c) /\ result[c] = "Failed"
    /\ obs[c].prompts = 1 /\ obs[c].lines = 2
    /\ Len(Credentials(c)) = 1

\* C9: the first thing written to the helper is the cookie; a credential is
\* written only after a PAM_PROMPT_ECHO_OFF line was processed and its
\* ReadPassword event sent; after the lines PAM_PROMPT_ECHO_OFF, SUCCESS with
\* one reply v and no I/O failure the helper has received cookie, newline, v,
\* newline and authenticate returns Ok.
C9_HelperInputOrder ==
  \A c \in Calls :
    /\ helperIn[c] # <<>> => helperIn[c][1] = cookie[c]
    /\ Credentials(c) # <<>> => obs[c].prompts > 0
    /\ ( /\ Returned(c)
         /\ obs[c].lines = 2 /\ obs[c].prompts = 1 /\ obs[c].success
         /\ ~obs[c].ioErr
         /\ Len(Credentials(c)) = 1 )
       => /\ result[c] = "Ok"
          /\ \E v \in Passwords : helperIn[c] = <<cookie[c], NL, v, NL>>

\* the conversation PAM_PROMPT_ECHO_OFF, reply, SUCCESS has ended with Ok
C9_Witness ==
  \E c \in Calls :
    /\ Returned(c) /\ result[c] = "Ok"
    /\ obs[c].lines = 2 /\ obs[c].prompts = 1 /\ obs[c].success
    /\ helperIn[c] = <<cookie[c], NL, "secret", NL>>

\* C10: the credentials written to the helper never outnumber the
\* PAM_PROMPT_ECHO_OFF lines processed; one prompt delivers at most one
\* credential, and never a credential as well as a cancellation.
C10_OneReplyPerPrompt ==
  /\ \A c \in Calls : Len(Credentials(c)) <= obs[c].prompts
  /\ dialog # None => dialog[1].sent <= 1
  /\ dialog # None => ~(dialog[1].sent > 0 /\ dialog[1].cancel)

\* C11: among the uids of the unix-user identities of the list (identities of
\* another kind or without a uid do not count) the selection is the own uid
\* if it is there, else 0 if it is there, else the first of them in list
\* order, else nothing, wherever in the list the own uid or 0 stands; with
\* own uid 1000: [1000, 0] gives 1000, [0] gives 0, [500] gives 500, [] gives
\* nothing. The name returned is that of the selected uid, or nothing.
C11_OwnThenRootThenFirst ==
  selected # None =>
    LET at == { i \in 1..Len(identities) :
                  /\ identities[i].identity_kind = "unix-user"
                  /\ identities[i].uid # None }
        uids == { identities[i].uid[1] : i \in at }
        first == CHOOSE i \in at : \A j \in at : i <= j
        uid == selected[1].uid
    IN /\ uid = IF CurrentUid \in uids THEN Some(CurrentUid)
                ELSE IF 0 \in uids THEN Some(0)
                ELSE IF at # {} THEN identities[first].uid
                ELSE None
       /\ identities = <<UnixUser(1000), UnixUser(0)>> => uid = Some(1000)
       /\ identities = <<UnixUser(0), UnixUser(1000)>> => uid = Some(1000)
       /\ identities = <<UnixUser(0)>> => uid = Some(0)
       /\ identities = <<UnixUser(500)>> => uid = Some(500)
       /\ identities = <<>> => uid = None
       /\ selected[1].name # None => (uid # None /\ selected[1].name = Some(<<"user", uid[1]>>))

\* the own uid was selected from a list where root and a group stand before it
C11_Witness ==
  /\ identities = <<UnixUser(0), UnixGroup(0), UnixUser(1000)>>
  /\ selected = Some([uid |-> Some(1000), name |-> Some(<<"user", 1000>>)])

\* C12: when authenticate has returned after its loop ended on a SUCCESS line
\* or on the end of the helper's output, the helper has been reaped: it
\* exited within the second, or it was killed and waited for.
C12_GraceThenReaped ==
  \A c \in Calls :
    (Returned(c) /\ (obs[c].success \/ obs[c].eof)) => proc[c] = "reaped"

\* C13: when authenticate of a call returns, whatever the result, the call
\* appends one End event to the channel and only then clears the slot; the
\* channel never holds a ReadPassword event of a call behind the End of that
\* call, nor two Ends of it, and while a ReadPassword event of a call waits
\* in the channel or its prompt is on the screen the End of that call has not
\* been taken from the channel.
C13_EndAfterPrompts ==
  /\ [](\A c \in Calls :
         LET ends == { i \in 1..Len(events) :
                         events[i] = [type |-> "End", call |-> c] }
             prompts == { i \in 1..Len(events) :
                            events[i] = [type |-> "ReadPassword", call |-> c] }
             before == pc[c] \in {"loop", "wait", "send_end"}
         IN /\ Cardinality(ends) <= 1
            /\ \A i \in prompts : \A j \in ends : i < j
            /\ ends # {} => pc[c] \in {"clear", "done", "idle"}
            /\ prompts # {} => (before \/ ends # {})
            /\ (dialog # None /\ dialog[1].prompt = c) => (before \/ ends # {}))
  /\ [][\A c \in Calls :
          /\ (pc[c] = "send_end" /\ pc'[c] # "send_end")
               => /\ events' = Append(events, [type |-> "End", call |-> c])
                  /\ pc'[c] = "clear"
                  /\ attempt' = attempt
          /\ (pc[c] # "clear" /\ pc'[c] = "clear") => pc[c] = "send_end"]_vars

\* the End of a call stands behind its prompt in the channel, the slot not yet
\* cleared
C13_Witness ==
  \E c \in Calls :
    /\ events = << [type |-> "ReadPassword", call |-> c], [type |-> "End", call |-> c] >>
    /\ pc[c] = "clear"
    /\ attempt # None /\ attempt[1].token = c

\* C14: while authenticate of a call is in flight that call does not hold the
\* write guard of the slot; the guard is held only by a call at its install
\* or at its clear, whose next step drops it whatever the conversations do;
\* with no write guard held cancel_authentication can run at once, and with
\* the cookie of the slot it signals the token of the attempt.
C14_WriteGuardOnlyAtInstallAndClear ==
  /\ [](\A c \in Calls :
         /\ InFlight(c) => wlock # Some(c)
         /\ wlock = Some(c) =>
               /\ pc[c] \in {"install", "clear"}
               /\ ENABLED (BeginInstall(c) \/ BeginClear(c))
         /\ (InFlight(c) /\ wlock = None) =>
               \A k \in Cookies : ENABLED cancel_authentication(k))
  /\ [][\A k \in Cookies :
          (cancel_authentication(k) /\ attempt # None /\ attempt[1].cookie = k)
            => cancelled'[attempt[1].token]]_vars

\* cancel_authentication has signalled the token of a conversation that is
\* still in flight
C14_Witness ==
  \E c \in Calls :
    /\ pc[c] = "loop" /\ obs[c].cancelHit /\ cancelled[c]
    /\ attempt # None /\ attempt[1].token = c
    /\ wlock = None

\* C15: a helper line whose token is PAM_ERROR_MSG, PAM_TEXT_INFO or none of
\* the known tokens leaves the call in its loop and changes nothing but the
\* count of lines read: nothing is written to the helper, no event is sent,
\* no result is set, so the conversation goes on as without the line.
C15_NonFatalLineChangesNothing ==
  [][\A c \in Calls : \A line \in HelperLines :
       ( /\ Token(line) \notin { <<"PAM_PROMPT_ECHO_OFF">>, <<"PAM_PROMPT_ECHO_ON">>,
                                 <<"SUCCESS">>, <<"FAILURE">> }
         /\ handle_helper_line(c, line) )
       => /\ pc[c] = "loop" /\ pc' = pc
          /\ obs' = [obs EXCEPT ![c].lines = @ + 1]
          /\ UNCHANGED <<attempt, cancelled, cookie, result, proc, helperIn,
                         pwChan, events, dialog, wlock, windows>>]_vars

\* an informational or unknown line, then SUCCESS: authenticate returned Ok,
\* and the helper received nothing but the handshake
C15_Witness ==
  \E c \in Calls :
    /\ Returned(c) /\ result[c] = "Ok"
    /\ obs[c].lines = 2 /\ obs[c].success /\ obs[c].prompts = 0
    /\ helperIn[c] = <<cookie[c], NL>>
    /\ events = <<>>

\* C16: the presentation loop never has more than one window, and has one
\* exactly while its dialog is set; taking a ReadPassword or ReadFingerprint
\* event from the channel creates the window if there is none and keeps the
\* one there is; taking an End destroys it, and changes nothing of the
\* presentation if there is none; a window appears only by taking a prompt
\* event, so from an End taken to the next prompt event there is none.
C16_OneSurface ==
  /\ [](windows <= 1 /\ (windows = 1 <=> dialog # None))
  /\ [][(events # <<>> /\ events' = Tail(events)) =>
          LET ev == Head(events)
          IN /\ ev.type \in {"ReadPassword", "ReadFingerprint"} =>
                  /\ dialog' # None /\ windows' = 1
                  /\ dialog # None => windows' = windows
             /\ ev.type = "End" => (dialog' = None /\ windows' = 0)
             /\ (ev.type = "End" /\ dialog = None) => UNCHANGED <<dialog, windows>>]_vars
  /\ [][(dialog = None /\ dialog' # None) =>
          /\ events # <<>> /\ events' = Tail(events)
          /\ Head(events).type \in {"ReadPassword", "ReadFingerprint"}]_vars

\* both prompts of a conversation have been shown, on one window
C16_Witness ==
  \E c \in Calls :
    /\ pc[c] = "loop" /\ obs[c].prompts = 2 /\ events = <<>>
    /\ dialog # None /\ dialog[1].prompt = c
    /\ windows = 1

\* C17: when a startup step of the I/O thread fails (the connection to the
\* system bus, or a step of register_agent such as the read of the session id
\* or the register call), app_token is cancelled and the I/O thread returns;
\* the main thread then quits the application, joins the I/O thread and
\* exits, whether the failure comes before or after the application is
\* activated: the process does not stay with its presentation loop running.
C17_FailedStartupExits ==
  /\ [](failedAt # None => (app_token /\ rt = "returned"))
  /\ [](ui = "quitting" => app_token)
  /\ [](ui = "exited" => rt = "returned")
  /\ (failedAt # None) ~> (ui = "exited" /\ rt = "returned")

\* the read of the session id failed and the process has exited
C17_Witness ==
  /\ failedAt = Some("session_id")
  /\ ui = "exited" /\ rt = "returned"
  /\ watcher = "done"

\* C18: a begin_authentication call that finds the slot empty and no user
\* for its identities returns Failed: it installs no attempt, spawns no
\* helper and sends no event, the slot stays empty; and a call that finds the
\* slot empty and a user for its identities is accepted.
C18_NoUserFails ==
  /\ [][\A c \in Calls, k \in Cookies, ids \in IdentityLists :
          (BeginCheck(c, k, ids) /\ attempt = None)
            => IF select_username_from_identities(ids) = None
               THEN /\ pc'[c] = "done" /\ result'[c] = "Failed"
                    /\ obs'[c].noUser
                    /\ attempt' = None
                    /\ UNCHANGED <<cancelled, proc, helperIn, pwChan, events,
                                   dialog, wlock, windows>>
               ELSE pc'[c] = "install"]_vars
  /\ [](\A c \in Calls :
         obs[c].noUser =>
           /\ pc[c] = "done" /\ result[c] = "Failed"
           /\ proc[c] = "none" /\ helperIn[c] = <<>>
           /\ ~Referenced(c)
           /\ ~(attempt # None /\ attempt[1].token = c))

\* a call was turned down for lack of a user; the slot is empty
C18_Witness ==
  \E c \in Calls :
    /\ obs[c].noUser /\ pc[c] = "done" /\ result[c] = "Failed"
    /\ attempt = None /\ events = <<>> /\ proc[c] = "none"

\* C19: while authenticate of a call is in flight the slot holds the attempt
\* of that call, its cookie with its token, so that cancel_authentication
\* with that cookie reaches the token the call waits on.
C19_SlotHoldsAttemptInFlight ==
  \A c \in Calls :
    InFlight(c) => attempt = Some([cookie |-> cookie[c], token |-> c])

\* C20: the token of a call is signalled only by cancel_authentication with
\* the cookie of that call, installed with the token in the slot, or by the cancel
\* button of a prompt of that call, and is not signalled when the call
\* installs it; authenticate returns Cancelled only when its own token was
\* signalled; a credential enters the reply channel of a
\* call only from a prompt of that call, a call starts with an empty reply
\* channel, and what a call writes to its helper after the handshake comes
\* from its own reply channel.
C20_AttemptsIsolated ==
  /\ [][\A c \in Calls :
          /\ (~cancelled[c] /\ cancelled'[c]) =>
                \/ /\ dialog # None /\ dialog[1].prompt = c
                   /\ dialog' # None /\ dialog'[1].cancel
                \/ /\ attempt # None /\ attempt[1].token = c
                   /\ pc[c] # "idle" => attempt[1].cookie = cookie[c]
                   /\ cancel_authentication(attempt[1].cookie)
          /\ Len(pwChan'[c]) > Len(pwChan[c]) =>
                /\ dialog # None /\ dialog[1].prompt = c
                /\ \E v \in Passwords : pwChan'[c] = Append(pwChan[c], v)
          /\ Len(Credentials(c))' > Len(Credentials(c)) =>
                /\ pwChan[c] # <<>>
                /\ Credentials(c)' = Append(Credentials(c), Head(pwChan[c]))
                /\ pwChan'[c] \in {Tail(pwChan[c]), <<>>}
          /\ (pc[c] = "install" /\ pc'[c] # "install") => ~cancelled'[c]]_vars
  /\ [](\A c \in Calls :
         /\ (Returned(c) /\ result[c] = "Cancelled") => cancelled[c]
         /\ pc[c] \in {"idle", "install", "spawn", "write_cookie"} => pwChan[c] = <<>>)

\* the cancel button of the prompt left by an attempt that is over was
\* clicked while the next attempt is in its conversation, its token not
\* signalled
C20_Witness ==
  \E c, d \in Calls :
    /\ c # d
    /\ dialog # None /\ dialog[1].prompt = c /\ dialog[1].cancel
    /\ cancelled[c] /\ pc[c] = "idle"
    /\ pc[d] = "loop" /\ ~cancelled[d]
    /\ attempt = Some([cookie |-> cookie[d], token |-> d])

=============================================================================
